---- MODULE Spec2Model ----
(***************************************************************************)
(* A model of diff_heu_heu.py: the graph-diff engine that compares two     *)
(* mined process models (parse_dot_string, match_binary_names_labels,      *)
(* create_dict_diff, create_dict_diff_edges, diff, modifica_dfg_result,    *)
(* draw_diff, imp_edges_modified and the rendering tail of main).          *)
(*                                                                         *)
(* A Python dict is a sequence of entries [k |-> key, v |-> value] with    *)
(* pairwise distinct keys, in insertion order.  A Python tuple or list is  *)
(* a TLA+ sequence.                                                        *)
(***************************************************************************)
EXTENDS Integers, Sequences, FiniteSets, Bags, TLC

VARIABLES
    \* diff(dfg_old, dfg_new)
    dfg_old, dfg_new, dfg_result, dfg_result_new, diff_i, diff_pc,
    \* create_dict_diff(list1, list2) and create_dict_diff_edges(list1, list2)
    set_fn, list1, list2, dict_diff, dict_diff_swapped, set_pc,
    \* modifica_dfg_result(dfg_result), applied once and then again
    canon_in, canon_once, canon_twice, canon_pc,
    \* main, from "Drawing differences..." on (lines 455-464)
    dfg_result_modified, dict_diff_nodes, dfg_result_modified_filtered,
    drawn, main_pc,
    \* parse_dot_string(data) and match_binary_names_labels(...) as main
    \* calls them (lines 424-430)
    graph_nodes, graph_edges, edges_origin_dest, labels, binary_names,
    labels_names_inv, edges_origin_dest_labels, resolve_pc

diffVars == <<dfg_old, dfg_new, dfg_result, dfg_result_new, diff_i, diff_pc>>

setVars == <<set_fn, list1, list2, dict_diff, dict_diff_swapped, set_pc>>

canonVars == <<canon_in, canon_once, canon_twice, canon_pc>>

mainVars == <<dfg_result_modified, dict_diff_nodes, dfg_result_modified_filtered,
              drawn, main_pc>>

resolveVars == <<graph_nodes, graph_edges, edges_origin_dest, labels, binary_names,
                 labels_names_inv, edges_origin_dest_labels, resolve_pc>>

vars == <<diffVars, setVars, canonVars, mainVars, resolveVars>>

\* what each function leaves alone
notDiffVars == <<setVars, canonVars, mainVars, resolveVars>>

notSetVars == <<diffVars, canonVars, mainVars, resolveVars>>

notCanonVars == <<diffVars, setVars, mainVars, resolveVars>>

notMainVars == <<diffVars, setVars, canonVars, resolveVars>>

notResolveVars == <<diffVars, setVars, canonVars, mainVars>>

(***************************************************************************)
(* The state of a function that is not running                             *)
(***************************************************************************)
NoDictDiff == [green |-> <<>>, red |-> <<>>]

IdleDiffVars ==
    /\ dfg_old = <<>>
    /\ dfg_new = <<>>
    /\ dfg_result = <<>>
    /\ dfg_result_new = <<>>
    /\ diff_i = 0
    /\ diff_pc = "idle"

IdleSetVars ==
    /\ set_fn = "idle"
    /\ list1 = <<>>
    /\ list2 = <<>>
    /\ dict_diff = NoDictDiff
    /\ dict_diff_swapped = NoDictDiff
    /\ set_pc = "idle"

IdleCanonVars ==
    /\ canon_in = <<>>
    /\ canon_once = <<>>
    /\ canon_twice = <<>>
    /\ canon_pc = "idle"

IdleMainVars ==
    /\ dfg_result_modified = <<>>
    /\ dict_diff_nodes = NoDictDiff
    /\ dfg_result_modified_filtered = <<>>
    /\ drawn = <<>>
    /\ main_pc = "idle"

IdleResolveVars ==
    /\ graph_nodes = <<>>
    /\ graph_edges = <<>>
    /\ edges_origin_dest = <<>>
    /\ labels = <<>>
    /\ binary_names = <<>>
    /\ labels_names_inv = <<>>
    /\ edges_origin_dest_labels = <<>>
    /\ resolve_pc = "idle"

(***************************************************************************)
(* Python dict                                                             *)
(***************************************************************************)
Keys(d) == {d[i].k : i \in DOMAIN d}

Has(d, key) == \E i \in DOMAIN d : d[i].k = key

Get(d, key) == d[CHOOSE i \in DOMAIN d : d[i].k = key].v

\* d[key] = value: an existing key keeps its position, a new key is appended
Put(d, key, value) ==
    IF Has(d, key)
    THEN [i \in DOMAIN d |-> IF d[i].k = key THEN [k |-> key, v |-> value] ELSE d[i]]
    ELSE Append(d, [k |-> key, v |-> value])

\* every dict with keys in K, values in V and at most n entries
DictsOver(K, V, n) ==
    UNION { {d \in [1..m -> [k : K, v : V]] :
                \A i, j \in 1..m : i # j => d[i].k # d[j].k} : m \in 0..n }

(***************************************************************************)
(* diff: weights are strings, either numeric or the placeholder '-'        *)
(***************************************************************************)
MaxDfgLen == 3

DiffEdges == {<<"A", "B">>, <<"B", "A">>, <<"A", "End">>}

WeightTokens == {"-", "5.0", "2.9996"}

\* float(s) succeeds exactly on the numeric strings
IsNumeric(s) == s \in {"5.0", "2.9996"}

\* float(s), in ten-thousandths
Float(s) == CASE s = "5.0" -> 50000
              [] s = "2.9996" -> 29996

\* round(x, 3) of a value in ten-thousandths (ties to even)
Round3(x) ==
    LET q == x \div 10
        r == x % 10
    IN  IF r < 5 THEN q * 10
        ELSE IF r > 5 THEN (q + 1) * 10
        ELSE IF q % 2 = 0 THEN q * 10 ELSE (q + 1) * 10

\* line 278: the delta is computed only when the old weight is not '-'
ComputesDelta(old_value) == old_value # "-"

\* line 279: float(dfg_old[edge]) - float(dfg_new[edge]) raises ValueError
\* when either operand is not numeric
DeltaRaises(old_value, new_value) == ~IsNumeric(old_value) \/ ~IsNumeric(new_value)

\* line 279: count
Count(old_value, new_value) == <<"float", Round3(Float(old_value) - Float(new_value))>>

StatusOfOldMutant(new, edge) == "ok"

\* lines 276-282: the status of a key of dfg_old
StatusOfOld(new, edge) == IF Has(new, edge) THEN "ok" ELSE "missing"

DeltaAfterOldMutant(old, new, result_new, edge) ==
    IF Has(new, edge)
    THEN IF ComputesDelta(Get(old, edge))
         THEN Put(result_new, edge, Count(Get(old, edge), Get(new, edge)))
         ELSE Put(result_new, edge, <<"str", "">>)
    ELSE Put(result_new, edge, <<"str", "">>)

\* lines 276-283: dfg_result_new after one iteration of the first loop that
\* does not raise
DeltaAfterOld(old, new, result_new, edge) ==
    IF Has(new, edge)
    THEN IF ComputesDelta(Get(old, edge))
         THEN Put(result_new, edge, Count(Get(old, edge), Get(new, edge)))
         ELSE result_new
    ELSE Put(result_new, edge, <<"str", "">>)

\* lines 278-279: whether this iteration of the first loop raises
OldIterationRaises(old, new, edge) ==
    /\ Has(new, edge)
    /\ ComputesDelta(Get(old, edge))
    /\ DeltaRaises(Get(old, edge), Get(new, edge))

InitDiffVars ==
    /\ dfg_old \in DictsOver(DiffEdges, WeightTokens, MaxDfgLen)
    /\ dfg_new \in DictsOver(DiffEdges, WeightTokens, MaxDfgLen)
    /\ dfg_result = <<>>
    /\ dfg_result_new = <<>>
    /\ diff_i = 1
    /\ diff_pc = "for_old"

\* one iteration of `for edge in dfg_old` (lines 275-283)
DiffOldIteration ==
    /\ diff_pc = "for_old"
    /\ diff_i <= Len(dfg_old)
    /\ LET edge == dfg_old[diff_i].k IN
         /\ dfg_result' = Put(dfg_result, edge, StatusOfOld(dfg_new, edge))
         /\ IF OldIterationRaises(dfg_old, dfg_new, edge)
            THEN /\ diff_pc' = "ValueError"
                 /\ UNCHANGED <<dfg_result_new, diff_i>>
            ELSE /\ dfg_result_new' = DeltaAfterOld(dfg_old, dfg_new, dfg_result_new, edge)
                 /\ diff_i' = diff_i + 1
                 /\ UNCHANGED diff_pc
    /\ UNCHANGED <<dfg_old, dfg_new>>
    /\ UNCHANGED notDiffVars

\* the first loop is exhausted, the second starts (line 285)
DiffOldExhausted ==
    /\ diff_pc = "for_old"
    /\ diff_i > Len(dfg_old)
    /\ diff_pc' = "for_new"
    /\ diff_i' = 1
    /\ UNCHANGED <<dfg_old, dfg_new, dfg_result, dfg_result_new>>
    /\ UNCHANGED notDiffVars

\* one iteration of `for edge in dfg_new` (lines 285-287)
DiffNewIteration ==
    /\ diff_pc = "for_new"
    /\ diff_i <= Len(dfg_new)
    /\ LET edge == dfg_new[diff_i].k IN
         dfg_result' = IF ~Has(dfg_old, edge)
                       THEN Put(dfg_result, edge, "extra")
                       ELSE dfg_result
    /\ diff_i' = diff_i + 1
    /\ UNCHANGED <<dfg_old, dfg_new, dfg_result_new, diff_pc>>
    /\ UNCHANGED notDiffVars

\* return dfg_result, dfg_result_new (line 289)
DiffReturn ==
    /\ diff_pc = "for_new"
    /\ diff_i > Len(dfg_new)
    /\ diff_pc' = "returned"
    /\ UNCHANGED <<dfg_old, dfg_new, dfg_result, dfg_result_new, diff_i>>
    /\ UNCHANGED notDiffVars

InitDiff == InitDiffVars /\ IdleSetVars /\ IdleCanonVars /\ IdleMainVars /\ IdleResolveVars

NextDiff ==
    \/ DiffOldIteration
    \/ DiffOldExhausted
    \/ DiffNewIteration
    \/ DiffReturn

SpecDiff == InitDiff /\ [][NextDiff]_vars

(***************************************************************************)
(* Claims about diff                                                       *)
(***************************************************************************)
\* C1: when diff returns, the status mapping has exactly the keys of
\* dfg_old and dfg_new, each once; a key is 'ok' iff it is in both inputs
\* (whatever the weights), 'missing' iff only in dfg_old, 'extra' iff only
\* in dfg_new.
C1_StatusCoverage ==
    diff_pc = "returned" =>
        /\ Keys(dfg_result) = Keys(dfg_old) \cup Keys(dfg_new)
        /\ Len(dfg_result) = Cardinality(Keys(dfg_old) \cup Keys(dfg_new))
        /\ \A key \in Keys(dfg_result) :
              /\ Get(dfg_result, key) \in {"ok", "missing", "extra"}
              /\ Get(dfg_result, key) = "ok"
                    <=> (key \in Keys(dfg_old) /\ key \in Keys(dfg_new))
              /\ Get(dfg_result, key) = "missing"
                    <=> (key \in Keys(dfg_old) /\ key \notin Keys(dfg_new))
              /\ Get(dfg_result, key) = "extra"
                    <=> (key \notin Keys(dfg_old) /\ key \in Keys(dfg_new))

\* a returned diff with an 'ok' key whose weights differ, a 'missing' key
\* and an 'extra' key
C1_Witness ==
    /\ diff_pc = "returned"
    /\ \E a, b, c \in Keys(dfg_result) :
          /\ Get(dfg_result, a) = "ok"
          /\ Get(dfg_old, a) # Get(dfg_new, a)
          /\ Get(dfg_result, b) = "missing"
          /\ Get(dfg_result, c) = "extra"

\* C3: with every weight a numeric string or '-', diff never converts a
\* placeholder to a number, so it never fails with a ValueError.
C3_NoPlaceholderConversion == diff_pc # "ValueError"

\* C4: a key of both inputs whose old weight is '-' gets status 'ok' and no
\* delta entry, and a key that is only in dfg_new (status 'extra') never has
\* a delta entry.
C4_PlaceholderSkip ==
    /\ \A key \in Keys(dfg_result_new) :
          /\ key \in Keys(dfg_old)
          /\ key \in Keys(dfg_new) => Get(dfg_old, key) # "-"
    /\ \A key \in Keys(dfg_old) \cap Keys(dfg_new) :
          Get(dfg_old, key) = "-" =>
              /\ Has(dfg_result, key) => Get(dfg_result, key) = "ok"
              /\ diff_pc \in {"for_new", "returned"} => Has(dfg_result, key)
    /\ diff_pc = "returned" =>
          \A key \in Keys(dfg_new) \ Keys(dfg_old) :
              /\ Has(dfg_result, key)
              /\ Get(dfg_result, key) = "extra"

\* a returned diff with a placeholder key in both inputs, an 'extra' key
\* and a delta entry for another key
C4_Witness ==
    /\ diff_pc = "returned"
    /\ \E key \in Keys(dfg_old) \cap Keys(dfg_new) : Get(dfg_old, key) = "-"
    /\ Keys(dfg_new) \ Keys(dfg_old) # {}
    /\ dfg_result_new # <<>>

(***************************************************************************)
(* create_dict_diff and create_dict_diff_edges                             *)
(***************************************************************************)
MaxListLen == 2

NodeNames == {"A", "B", "C"}

\* an element of an edge list is a 2-element list or tuple
EdgeItems == [kind : {"list", "tuple"}, items : {<<"A", "B">>, <<"B", "A">>, <<"A", "A">>}]

\* every list over S with at most n elements
ListsOver(S, n) == UNION {[1..m -> S] : m \in 0..n}

\* set(list)
SetOf(list) == {list[i] : i \in DOMAIN list}

\* list(set): the elements of the set, each once, in an order the
\* interpreter chooses
ListsOfSet(S) == {l \in [1..Cardinality(S) -> S] : SetOf(l) = S}

\* tuple(e)
Tuple(e) == [kind |-> "tuple", items |-> e.items]

\* set(map(tuple, list))
TupleSetOf(list) == {Tuple(list[i]) : i \in DOMAIN list}

\* lines 223 and 241: set1 - set2
RedValues(set1, set2) == set1 \ set2

GreenValuesMutant(set1, set2) == set1 \ set2

\* lines 224 and 242: set2 - set1
GreenValues(set1, set2) == set2 \ set1

\* lines 223-226: the results create_dict_diff(l1, l2) can return
create_dict_diff(l1, l2) ==
    {[green |-> g, red |-> r] :
        g \in ListsOfSet(GreenValues(SetOf(l1), SetOf(l2))),
        r \in ListsOfSet(RedValues(SetOf(l1), SetOf(l2)))}

\* lines 239-244: the results create_dict_diff_edges(l1, l2) can return
create_dict_diff_edges(l1, l2) ==
    {[green |-> g, red |-> r] :
        g \in ListsOfSet(GreenValues(TupleSetOf(l1), TupleSetOf(l2))),
        r \in ListsOfSet(RedValues(TupleSetOf(l1), TupleSetOf(l2)))}

InitSetVars ==
    /\ set_fn \in {"create_dict_diff", "create_dict_diff_edges"}
    /\ list1 \in IF set_fn = "create_dict_diff"
                 THEN ListsOver(NodeNames, MaxListLen)
                 ELSE ListsOver(EdgeItems, MaxListLen)
    /\ list2 \in IF set_fn = "create_dict_diff"
                 THEN ListsOver(NodeNames, MaxListLen)
                 ELSE ListsOver(EdgeItems, MaxListLen)
    /\ dict_diff = NoDictDiff
    /\ dict_diff_swapped = NoDictDiff
    /\ set_pc = "call"

\* create_dict_diff(list1, list2), then create_dict_diff(list2, list1)
CreateDictDiff ==
    /\ set_fn = "create_dict_diff"
    /\ IF set_pc = "call"
       THEN /\ dict_diff' \in create_dict_diff(list1, list2)
            /\ set_pc' = "call_swapped"
            /\ UNCHANGED dict_diff_swapped
       ELSE /\ set_pc = "call_swapped"
            /\ dict_diff_swapped' \in create_dict_diff(list2, list1)
            /\ set_pc' = "returned"
            /\ UNCHANGED dict_diff
    /\ UNCHANGED <<set_fn, list1, list2>>
    /\ UNCHANGED notSetVars

\* create_dict_diff_edges(list1, list2), then
\* create_dict_diff_edges(list2, list1)
CreateDictDiffEdges ==
    /\ set_fn = "create_dict_diff_edges"
    /\ IF set_pc = "call"
       THEN /\ dict_diff' \in create_dict_diff_edges(list1, list2)
            /\ set_pc' = "call_swapped"
            /\ UNCHANGED dict_diff_swapped
       ELSE /\ set_pc = "call_swapped"
            /\ dict_diff_swapped' \in create_dict_diff_edges(list2, list1)
            /\ set_pc' = "returned"
            /\ UNCHANGED dict_diff
    /\ UNCHANGED <<set_fn, list1, list2>>
    /\ UNCHANGED notSetVars

InitSetDiff == InitSetVars /\ IdleDiffVars /\ IdleCanonVars /\ IdleMainVars /\ IdleResolveVars

NextSetDiff ==
    \/ CreateDictDiff
    \/ CreateDictDiffEdges

SpecSetDiff == InitSetDiff /\ [][NextSetDiff]_vars

\* the members of the two inputs as the function compares them: node names
\* as they are, edges by their two items in order
InOld(x) ==
    IF set_fn = "create_dict_diff"
    THEN \E i \in DOMAIN list1 : list1[i] = x
    ELSE \E i \in DOMAIN list1 : list1[i].items = x.items

InNew(x) ==
    IF set_fn = "create_dict_diff"
    THEN \E i \in DOMAIN list2 : list2[i] = x
    ELSE \E i \in DOMAIN list2 : list2[i].items = x.items

Universe ==
    IF set_fn = "create_dict_diff" THEN NodeNames
    ELSE {e \in EdgeItems : e.kind = "tuple"}

NoDuplicates(l) == \A i, j \in DOMAIN l : i # j => l[i] # l[j]

MaxCanonLen == 3

Statuses == {"ok", "missing", "extra"}

CanonEdges == {<<a, b>> : a \in {"@@S", "Start", "A"}, b \in {"@@E", "End", "A"}}

CanonItemMutant(item) ==
    IF item = "@@S" THEN "Start" ELSE IF item = "@@E" THEN "@@S" ELSE item

\* line 303: the rewrite of one element of a key
CanonItem(item) ==
    IF item = "@@S" THEN "Start" ELSE IF item = "@@E" THEN "End" ELSE item

\* lines 302-305: tuple(... for item in key)
CanonKey(key) == [i \in DOMAIN key |-> CanonItem(key[i])]

\* lines 301-307: the dict comprehension over the first n items of d; a
\* rewritten key that is already there keeps its place and takes the later
\* value
RECURSIVE CanonPrefix(_, _)
CanonPrefix(d, n) ==
    IF n = 0 THEN <<>>
    ELSE Put(CanonPrefix(d, n - 1), CanonKey(d[n].k), d[n].v)

modifica_dfg_result(d) == CanonPrefix(d, Len(d))

\* dict == dict: the same keys with the same values, in any order
DictEq(d1, d2) ==
    /\ Keys(d1) = Keys(d2)
    /\ \A key \in Keys(d1) : Get(d1, key) = Get(d2, key)

InitCanonVars ==
    /\ canon_in \in DictsOver(CanonEdges, Statuses, MaxCanonLen)
    /\ canon_once = <<>>
    /\ canon_twice = <<>>
    /\ canon_pc = "call"

\* canon_once = modifica_dfg_result(canon_in)
Modifica ==
    /\ canon_pc = "call"
    /\ canon_once' = modifica_dfg_result(canon_in)
    /\ canon_pc' = "once"
    /\ UNCHANGED <<canon_in, canon_twice>>
    /\ UNCHANGED notCanonVars

\* canon_twice = modifica_dfg_result(canon_once)
ModificaAgain ==
    /\ canon_pc = "once"
    /\ canon_twice' = modifica_dfg_result(canon_once)
    /\ canon_pc' = "twice"
    /\ UNCHANGED <<canon_in, canon_once>>
    /\ UNCHANGED notCanonVars

InitCanon == InitCanonVars /\ IdleDiffVars /\ IdleSetVars /\ IdleMainVars /\ IdleResolveVars

NextCanon ==
    \/ Modifica
    \/ ModificaAgain

SpecCanon == InitCanon /\ [][NextCanon]_vars

\* C6: modifica_dfg_result applied to its own result returns that result,
\* also for a mapping that holds 'Start' or 'End' beside '@@S' or '@@E'.
C6_CanonIdempotent ==
    canon_pc = "twice" =>
        /\ DictEq(canon_twice, canon_once)
        /\ canon_twice = canon_once

\* applied twice to a mapping in which a key with '@@S' and a key with
\* 'Start' collapse to one, and a key with '@@E' is rewritten
C6_Witness ==
    /\ canon_pc = "twice"
    /\ \E k1, k2 \in Keys(canon_in) :
          /\ k1[1] = "@@S"
          /\ k2[1] = "Start"
          /\ k1[2] = "@@E"
          /\ CanonKey(k1) = CanonKey(k2)
          /\ Get(canon_in, k1) # Get(canon_in, k2)
    /\ Len(canon_once) < Len(canon_in)

(***************************************************************************)
(* draw_diff, imp_edges_modified and the rendering tail of main            *)
(***************************************************************************)
MaxRenderLen == 2

MaxDiffLen == 2

RenderEdges == {<<"Start", "A">>, <<"A", "B">>, <<"B", "End">>}

NodeDiffNames == {"Start", "End", "A"}

\* an attribute that a statement does not set
Unset == "<unset>"

InfoText == "There are no differences between the formal model and the simulated one!"

\* x in list
InList(list, x) == \E i \in DOMAIN list : list[i] = x

\* lines 325-327: the names that occur in a key
UniqueKeys(dfg_diff) == UNION {SetOf(key) : key \in Keys(dfg_diff)}

\* lines 329-336, with the attributes the branches may add
CommonNodeAttributes ==
    [fillcolor |-> "#33CBCB", fontcolor |-> "black", shape |-> "box",
     style |-> "filled", width |-> "1.4514", height |-> "0.5",
     label |-> Unset, color |-> Unset, penwidth |-> Unset]

NodeAttributesMutant(a, nodes_diff) ==
    IF InList(nodes_diff.green, a)
    THEN [CommonNodeAttributes EXCEPT !.fillcolor = "white", !.color = "#0d79ec",
                                      !.penwidth = "2"]
    ELSE IF InList(nodes_diff.red, a)
    THEN [CommonNodeAttributes EXCEPT !.fillcolor = "white", !.color = "#ec555b",
                                      !.penwidth = "2"]
    ELSE IF a = "Start"
    THEN [CommonNodeAttributes EXCEPT !.fillcolor = "#32CD32", !.shape = "circle",
                                      !.width = "0.75", !.label = ""]
    ELSE IF a = "End"
    THEN [CommonNodeAttributes EXCEPT !.fillcolor = "#FFA500", !.shape = "circle",
                                      !.width = "0.75", !.label = "",
                                      !.color = "#FFFFFF"]
    ELSE [CommonNodeAttributes EXCEPT !.fillcolor = "white"]

\* lines 339-361: the if/elif chain
NodeAttributes(a, nodes_diff) ==
    IF a = "Start"
    THEN [CommonNodeAttributes EXCEPT !.fillcolor = "#32CD32", !.shape = "circle",
                                      !.width = "0.75", !.label = ""]
    ELSE IF a = "End"
    THEN [CommonNodeAttributes EXCEPT !.fillcolor = "#FFA500", !.shape = "circle",
                                      !.width = "0.75", !.label = "",
                                      !.color = "#FFFFFF"]
    ELSE IF InList(nodes_diff.green, a)
    THEN [CommonNodeAttributes EXCEPT !.fillcolor = "white", !.color = "#0d79ec",
                                      !.penwidth = "2"]
    ELSE IF InList(nodes_diff.red, a)
    THEN [CommonNodeAttributes EXCEPT !.fillcolor = "white", !.color = "#ec555b",
                                      !.penwidth = "2"]
    ELSE [CommonNodeAttributes EXCEPT !.fillcolor = "white"]

EdgeColorMutant(key, status, nodes_diff) ==
    IF status = "ok" THEN "black"
    ELSE IF InList(nodes_diff.green, key[1]) \/ InList(nodes_diff.green, key[2])
    THEN "#0d79ec"
    ELSE "red"

\* lines 366-371
EdgeColor(key, status, nodes_diff) ==
    IF InList(nodes_diff.green, key[1]) \/ InList(nodes_diff.green, key[2])
    THEN "#0d79ec"
    ELSE IF status = "ok" THEN "black" ELSE "red"

\* line 378: the node that says there are no differences
InfoNode ==
    [name |-> InfoText,
     attrs |-> [fillcolor |-> Unset, fontcolor |-> Unset, shape |-> Unset,
                style |-> Unset, width |-> Unset, height |-> Unset,
                label |-> Unset, color |-> "white", penwidth |-> Unset]]

AddsInfoNodeMutant(dfg_diff) == Len(dfg_diff) <= 1

\* line 377
AddsInfoNode(dfg_diff) == Len(dfg_diff) = 0

\* lines 321-378: the graph draw_diff builds.  The node statements are a bag:
\* the loop over the set unique_keys emits them in an order the interpreter
\* chooses.  The edge statements follow the order of dfg_diff.
draw_diff(dfg_diff, nodes_diff, name) ==
    [name |-> name,
     nodes |-> SetToBag({[name |-> a, attrs |-> NodeAttributes(a, nodes_diff)] :
                            a \in UniqueKeys(dfg_diff)})
               (+) (IF AddsInfoNode(dfg_diff) THEN SetToBag({InfoNode}) ELSE EmptyBag),
     edges |-> [i \in DOMAIN dfg_diff |->
                  [tail |-> dfg_diff[i].k[1], head |-> dfg_diff[i].k[2],
                   color |-> EdgeColor(dfg_diff[i].k, dfg_diff[i].v, nodes_diff),
                   style |-> "solid", label |-> ""]],
     graph_attr |-> [ratio |-> "auto", size |-> "100,100"]]

KeepsEdge(entry) == entry.v # "ok"

\* lines 394-398
imp_edges_modified(diff_dict) == SelectSeq(diff_dict, KeepsEdge)

\* every list over S without a repeated element and with at most n elements
DistinctListsOver(S, n) ==
    {l \in ListsOver(S, n) : \A i, j \in DOMAIN l : i # j => l[i] # l[j]}

InitMainVars ==
    /\ dfg_result_modified \in DictsOver(RenderEdges, Statuses, MaxRenderLen)
    /\ dict_diff_nodes \in [green : DistinctListsOver(NodeDiffNames, MaxDiffLen),
                            red : DistinctListsOver(NodeDiffNames, MaxDiffLen)]
    /\ dfg_result_modified_filtered = <<>>
    /\ drawn = <<>>
    /\ main_pc = "draw_full"

\* one call of draw_diff: the graph is built, then dot.render writes the
\* file or raises
DrawCall(dfg_diff, name, rendered) ==
    [dfg_diff |-> dfg_diff,
     dot |-> draw_diff(dfg_diff, dict_diff_nodes, name),
     rendered |-> rendered]

\* line 457: draw_diff(dfg_result_modified, dict_diff_nodes, args.output_full);
\* an exception of dot.render leaves main
MainDrawFull ==
    /\ main_pc = "draw_full"
    /\ \E rendered \in BOOLEAN :
          /\ drawn' = Append(drawn, DrawCall(dfg_result_modified, "output_full", rendered))
          /\ main_pc' = IF rendered THEN "filter" ELSE "RenderError"
    /\ UNCHANGED <<dfg_result_modified, dict_diff_nodes, dfg_result_modified_filtered>>
    /\ UNCHANGED notMainVars

\* line 461
MainFilter ==
    /\ main_pc = "filter"
    /\ dfg_result_modified_filtered' = imp_edges_modified(dfg_result_modified)
    /\ main_pc' = "draw_filtered"
    /\ UNCHANGED <<dfg_result_modified, dict_diff_nodes, drawn>>
    /\ UNCHANGED notMainVars

\* line 462: draw_diff(dfg_result_modified_filtered, dict_diff_nodes,
\* args.output_filtered_full)
MainDrawFiltered ==
    /\ main_pc = "draw_filtered"
    /\ \E rendered \in BOOLEAN :
          /\ drawn' = Append(drawn, DrawCall(dfg_result_modified_filtered,
                                             "output_filtered_full", rendered))
          /\ main_pc' = IF rendered THEN "completed" ELSE "RenderError"
    /\ UNCHANGED <<dfg_result_modified, dict_diff_nodes, dfg_result_modified_filtered>>
    /\ UNCHANGED notMainVars

InitMain == InitMainVars /\ IdleDiffVars /\ IdleSetVars /\ IdleCanonVars /\ IdleResolveVars

NextMain ==
    \/ MainDrawFull
    \/ MainFilter
    \/ MainDrawFiltered

SpecMain == InitMain /\ [][NextMain]_vars

(***************************************************************************)
(* Claims about draw_diff and main                                         *)
(***************************************************************************)
\* main has ended: it completed or an exception left it
MainEnded == main_pc \in {"completed", "RenderError"}

\* C2: when main has ended and the full render (the first draw_diff call)
\* failed, the filtered render (the second draw_diff call) was attempted.
C2_RendersIndependent ==
    (MainEnded /\ Len(drawn) >= 1 /\ ~drawn[1].rendered) =>
        \E i \in DOMAIN drawn : drawn[i].dot.name = "output_filtered_full"

\* C7: a graph built from a status mapping with no entries has exactly one
\* node, the informational one, and no edge; a graph built from a mapping
\* with an entry has no informational node.
C7_EmptyDiffRendering ==
    \A i \in DOMAIN drawn :
        LET call == drawn[i] IN
        /\ Len(call.dfg_diff) = 0 =>
              /\ call.dot.nodes = SetToBag({InfoNode})
              /\ BagCardinality(call.dot.nodes) = 1
              /\ call.dot.edges = <<>>
        /\ Len(call.dfg_diff) > 0 =>
              \A stmt \in BagToSet(call.dot.nodes) :
                  stmt.name # InfoText /\ stmt # InfoNode

\* the full graph was built from a mapping with entries and the filtered
\* graph from an empty one
C7_Witness ==
    /\ Len(drawn) = 2
    /\ Len(drawn[1].dfg_diff) > 0
    /\ Len(drawn[2].dfg_diff) = 0
    /\ BagCardinality(drawn[2].dot.nodes) = 1
    /\ BagCardinality(drawn[1].dot.nodes) > 1

\* C8: a graph has one edge per key of its status mapping, from the key's
\* first name to its second; the edge is blue when either name is in green,
\* whatever the status, otherwise black when the status is 'ok', otherwise
\* red.
C8_EdgeFirstMatch ==
    \A i \in DOMAIN drawn :
        LET call == drawn[i] IN
        /\ Len(call.dot.edges) = Len(call.dfg_diff)
        /\ \A j \in DOMAIN call.dfg_diff :
              LET key == call.dfg_diff[j].k
                  status == call.dfg_diff[j].v
                  edge == call.dot.edges[j]
                  touches_green == \E n \in 1..Len(dict_diff_nodes.green) :
                                      dict_diff_nodes.green[n] \in {key[1], key[2]}
              IN  /\ edge.tail = key[1]
                  /\ edge.head = key[2]
                  /\ touches_green => edge.color = "#0d79ec"
                  /\ (~touches_green /\ status = "ok") => edge.color = "black"
                  /\ (~touches_green /\ status # "ok") => edge.color = "red"

\* a graph with a blue edge of status 'ok' and a red edge of status 'extra'
C8_Witness ==
    \E i \in DOMAIN drawn :
        \E j, m \in DOMAIN drawn[i].dfg_diff :
            /\ drawn[i].dfg_diff[j].v = "ok"
            /\ drawn[i].dot.edges[j].color = "#0d79ec"
            /\ drawn[i].dfg_diff[m].v = "extra"
            /\ drawn[i].dot.edges[m].color = "red"

\* C9: beside the informational node, a graph has exactly one node per
\* distinct name in the keys of its mapping, styled by the first rule that applies: 'Start', 'End',
\* in green, in red, neutral.
C9_NodeFirstMatch ==
    \A i \in DOMAIN drawn :
        LET call == drawn[i]
            names == UNION {{call.dfg_diff[j].k[1], call.dfg_diff[j].k[2]} :
                               j \in DOMAIN call.dfg_diff}
            styled == BagToSet(call.dot.nodes) \ {InfoNode}
            in_green(a) == \E n \in DOMAIN dict_diff_nodes.green :
                              dict_diff_nodes.green[n] = a
            in_red(a) == \E n \in DOMAIN dict_diff_nodes.red :
                            dict_diff_nodes.red[n] = a
        IN  /\ {stmt.name : stmt \in styled} = names
            /\ Cardinality(styled) = Cardinality(names)
            /\ \A stmt \in styled : CopiesIn(stmt, call.dot.nodes) = 1
            /\ \A stmt \in styled :
                  LET a == stmt.name
                      at == stmt.attrs
                  IN  /\ a = "Start" =>
                            /\ at.shape = "circle"
                            /\ at.fillcolor = "#32CD32"
                            /\ at.color = Unset
                      /\ a = "End" =>
                            /\ at.shape = "circle"
                            /\ at.fillcolor = "#FFA500"
                            /\ at.color = "#FFFFFF"
                      /\ (a \notin {"Start", "End"} /\ in_green(a)) =>
                            /\ at.shape = "box"
                            /\ at.fillcolor = "white"
                            /\ at.color = "#0d79ec"
                      /\ (a \notin {"Start", "End"} /\ ~in_green(a) /\ in_red(a)) =>
                            /\ at.shape = "box"
                            /\ at.fillcolor = "white"
                            /\ at.color = "#ec555b"
                      /\ (a \notin {"Start", "End"} /\ ~in_green(a) /\ ~in_red(a)) =>
                            /\ at.shape = "box"
                            /\ at.fillcolor = "white"
                            /\ at.color = Unset

\* a graph in which 'Start' is in green and drawn as the start circle, 'End'
\* is in red and drawn as the end circle, and 'A' is in green and in red and
\* drawn as added
C9_Witness ==
    /\ \E n \in DOMAIN dict_diff_nodes.green : dict_diff_nodes.green[n] = "Start"
    /\ \E n \in DOMAIN dict_diff_nodes.green : dict_diff_nodes.green[n] = "A"
    /\ \E n \in DOMAIN dict_diff_nodes.red : dict_diff_nodes.red[n] = "A"
    /\ \E n \in DOMAIN dict_diff_nodes.red : dict_diff_nodes.red[n] = "End"
    /\ \E i \in DOMAIN drawn :
          \E s1, s2, s3 \in BagToSet(drawn[i].dot.nodes) :
              /\ s1.name = "Start" /\ s1.attrs.shape = "circle"
              /\ s2.name = "End" /\ s2.attrs.shape = "circle"
              /\ s3.name = "A" /\ s3.attrs.color = "#0d79ec"

(***************************************************************************)
(* parse_dot_string and match_binary_names_labels                          *)
(*                                                                         *)
(* A label is written as the sequence of its maximal space-free pieces and *)
(* the single spaces between them: 'A (5)' is <<"A", " ", "(5)">>.         *)
(***************************************************************************)
MaxNodes == 3

MaxGraphEdges == 1

\* the raw identifiers of the nodes, in the order of graph.nodes()
RawIds == <<"n1", "n2", "n3", "n4">>

\* the label of a node that sets none
SentinelLabel == <<"\\N">>

NodeLabels == {SentinelLabel, <<"A", " ", "(5)">>, <<"B">>}

\* label.split(' ')[0]
Split0(label) == IF label = <<>> \/ label[1] = " " THEN "" ELSE label[1]

\* list.remove(x): the list without the first element equal to x
RECURSIVE RemoveFirst(_, _)
RemoveFirst(list, x) ==
    IF list = <<>> THEN <<>>
    ELSE IF Head(list) = x THEN Tail(list)
    ELSE <<Head(list)>> \o RemoveFirst(Tail(list), x)

\* lines 162-165: the labels of the nodes that have the attribute, in the
\* order of graph.nodes()
RECURSIVE CollectLabels(_)
CollectLabels(nodes) ==
    IF nodes = <<>> THEN <<>>
    ELSE (IF Head(nodes).has_label THEN <<Head(nodes).label>> ELSE <<>>)
         \o CollectLabels(Tail(nodes))

\* lines 162-167
ParsedLabels(nodes) ==
    LET collected == CollectLabels(nodes)
    IN  IF InList(collected, SentinelLabel)
        THEN RemoveFirst(collected, SentinelLabel)
        ELSE collected

\* lines 169-172
ParsedBinaryNames(nodes) == [i \in DOMAIN nodes |-> nodes[i].id]

\* dict(zip(keys, values)) over the first n pairs
RECURSIVE DictZip(_, _, _)
DictZip(keys, values, n) ==
    IF n = 0 THEN <<>>
    ELSE Put(DictZip(keys, values, n - 1), keys[n], values[n])

Min(a, b) == IF a <= b THEN a ELSE b

\* line 190
LabelsNamesInv(names, labs) ==
    DictZip(names, [i \in DOMAIN labs |-> Split0(labs[i])], Min(Len(names), Len(labs)))

\* dict.get(key, default)
GetOr(d, key, default) == IF Has(d, key) THEN Get(d, key) ELSE default

\* lines 191-196
MatchedEdges(edges, inv) ==
    [i \in DOMAIN edges |->
        <<GetOr(inv, edges[i][1], edges[i][1]), GetOr(inv, edges[i][2], edges[i][2])>>]

\* the node lists of n nodes: has_label is the outcome of
\* `'label' in node.attr` (line 164), label the value of node.attr['label']
GraphNodesOver(n) ==
    {nodes \in [1..n -> [id : {RawIds[i] : i \in 1..n}, has_label : BOOLEAN,
                         label : NodeLabels]] :
        \A i \in 1..n : nodes[i].id = RawIds[i]}

InitResolveVars ==
    /\ \E n \in 0..MaxNodes :
          /\ graph_nodes \in GraphNodesOver(n)
          /\ graph_edges \in ListsOver({RawIds[i] : i \in 1..n} \X {RawIds[i] : i \in 1..n},
                                       MaxGraphEdges)
    /\ edges_origin_dest = <<>>
    /\ labels = <<>>
    /\ binary_names = <<>>
    /\ labels_names_inv = <<>>
    /\ edges_origin_dest_labels = <<>>
    /\ resolve_pc = "parse"

\* lines 155-176 (the edge labels and the node positions, which main does
\* not use, are left out)
ParseDotString ==
    /\ resolve_pc = "parse"
    /\ edges_origin_dest' = graph_edges
    /\ labels' = ParsedLabels(graph_nodes)
    /\ binary_names' = ParsedBinaryNames(graph_nodes)
    /\ resolve_pc' = "match"
    /\ UNCHANGED <<graph_nodes, graph_edges, labels_names_inv, edges_origin_dest_labels>>
    /\ UNCHANGED notResolveVars

\* lines 190-196
MatchBinaryNamesLabels ==
    /\ resolve_pc = "match"
    /\ labels_names_inv' = LabelsNamesInv(binary_names, labels)
    /\ edges_origin_dest_labels' =
          MatchedEdges(edges_origin_dest, LabelsNamesInv(binary_names, labels))
    /\ resolve_pc' = "matched"
    /\ UNCHANGED <<graph_nodes, graph_edges, edges_origin_dest, labels, binary_names>>
    /\ UNCHANGED notResolveVars

InitResolve ==
    InitResolveVars /\ IdleDiffVars /\ IdleSetVars /\ IdleCanonVars /\ IdleMainVars

NextResolve ==
    \/ ParseDotString
    \/ MatchBinaryNamesLabels

SpecResolve == InitResolve /\ [][NextResolve]_vars

\* C10: when every node of the graph carries a label, each node whose own
\* label is not the sentinel '\N' resolves to the first token of its own
\* label, wherever the sentinel-labelled nodes are.
C10_ResolvesOwnLabel ==
    (resolve_pc = "matched" /\ \A i \in DOMAIN graph_nodes : graph_nodes[i].has_label) =>
        \A i \in DOMAIN graph_nodes :
            graph_nodes[i].label # SentinelLabel =>
                /\ Has(labels_names_inv, graph_nodes[i].id)
                /\ Get(labels_names_inv, graph_nodes[i].id) = Split0(graph_nodes[i].label)

====
